---- MODULE Spec2Model ----
(***************************************************************************)
(* ReplicationClient (src/src/clients/postgres.rs): the client's session   *)
(* state and slot handling against one Postgres session, and the catalog   *)
(* discovery functions over a Postgres catalog.                            *)
(*                                                                         *)
(* Two specifications share the module:                                    *)
(*   Spec     the client's operations on one connection (transaction flag, *)
(*            slots, streams), the server session beside it;               *)
(*   KeySpec  catalog discovery (get_table_schema and what it calls) over  *)
(*            a table drawn from a bounded family of catalogs, on an idle  *)
(*            session.                                                     *)
(***************************************************************************)
EXTENDS Integers, Sequences, FiniteSets, TLC

VARIABLES
    in_txn,        \* ReplicationClient.in_txn
    srv,           \* the server session: transaction block state
    slots,         \* pg_replication_slots: slot name -> confirmed_flush_lsn
    wal,           \* the server's current WAL position
    last,          \* the operation that returned last: what it sent and got
    phase,         \* how far the caller is in the expected lifecycle
    table,         \* the catalog: one relation, its columns and indexes
    observed,      \* per slot: the last two LSNs get_or_create_slot returned
    peers          \* clients inside get_or_create_slot at the same time

vars == <<in_txn, srv, slots, wal, last, phase, table, observed, peers>>

(***************************************************************************)
(* Bounds.                                                                 *)
(***************************************************************************)
\* indexes per table; an index's relname is its rank 1..MaxIndexes in the
\* collation order that ORDER BY c2.relname uses
MaxIndexes == 2

\* WAL positions 0..MaxLsn
MaxLsn == 2

\* the range of one half of an LSN text (2^32 in Postgres, scaled down)
HalfRange == 2

(***************************************************************************)
(* The catalog: pg_class, pg_attribute, pg_index, pg_constraint and        *)
(* pg_publication_rel rows of one relation.                                *)
(***************************************************************************)
\* pg_attribute.attname in attnum order (attnum = position)
Columns == <<"id", "email", "username", "data">>

AttNums == 1..Len(Columns)

\* a system column (ctid): pg_attribute rows with attnum below 1
SystemAttNums == {-1}

\* pg_attribute.attname
AttName(n) == IF n > 0 THEN Columns[n] ELSE "ctid"

ColumnNames == {Columns[n] : n \in AttNums}

\* pg_index.indkey of the indexes considered: attnums in index position order
IndKeys == {<<1>>, <<2>>, <<3>>, <<3, 2>>}

\* an index: primary key, unique constraint, partial unique index, deferrable
\* unique constraint, or a plain index
IndexShapes ==
    {[indisunique |-> TRUE,  indisprimary |-> TRUE,  indpred |-> FALSE, condeferrable |-> FALSE],
     [indisunique |-> TRUE,  indisprimary |-> FALSE, indpred |-> FALSE, condeferrable |-> FALSE],
     [indisunique |-> TRUE,  indisprimary |-> FALSE, indpred |-> TRUE,  condeferrable |-> FALSE],
     [indisunique |-> TRUE,  indisprimary |-> FALSE, indpred |-> FALSE, condeferrable |-> TRUE],
     [indisunique |-> FALSE, indisprimary |-> FALSE, indpred |-> FALSE, condeferrable |-> FALSE]}

NoIndex == [indkey |-> <<>>]

IndexDefs ==
    {[indkey |-> k, indisunique |-> s.indisunique, indisprimary |-> s.indisprimary,
      indpred |-> s.indpred, condeferrable |-> s.condeferrable] :
        k \in IndKeys, s \in IndexShapes}

\* the pg_index rows of a table whose index named r is defs[r]
IndexRows(defs) ==
    {[relname |-> r, indkey |-> defs[r].indkey, indisunique |-> defs[r].indisunique,
      indisprimary |-> defs[r].indisprimary, indpred |-> defs[r].indpred,
      condeferrable |-> defs[r].condeferrable] :
        r \in {q \in DOMAIN defs : defs[q] # NoIndex}}

\* attnotnull of the columns: "id" is NOT NULL and "data" nullable throughout
NotNullSets == {{1} \cup nn : nn \in SUBSET {2, 3}}

\* pg_publication_rel.prattrs of the publication: {} is "no column list"
PubAttrs == {{}, {2, 4}, {4}, {1, 3}}

\* what Postgres allows: at most one primary key, over NOT NULL columns
ValidTable(t) ==
    /\ Cardinality({i \in t.indexes : i.indisprimary}) <= 1
    /\ \A i \in t.indexes :
           i.indisprimary => \A p \in 1..Len(i.indkey) : i.indkey[p] \in t.attnotnull

\* the relation's (nspname, relname) in pg_namespace / pg_class
RelName == [schema |-> "public", name |-> "t"]

\* boolout: how Postgres writes a boolean in a simple-query row
PgBoolText == <<"t", "f">>

Tables ==
    {t \in [name : {RelName}, oid : {16384}, relreplident : {"d"}, attnotnull : NotNullSets,
            indexes : {IndexRows(d) : d \in [1..MaxIndexes -> IndexDefs \cup {NoIndex}]},
            prattrs : PubAttrs, attisdropped : {{}}, attgenerated : {{}},
            bool_text : {PgBoolText}] : ValidTable(t)}

\* pg_class.relreplident: default, full, nothing, index
ReplIdents == {"d", "f", "n", "i"}

\* a server that writes booleans in full
LongBoolText == <<"true", "false">>

\* what Postgres allows: no dropped or generated column in a column list
ValidColumnTable(t) == t.prattrs \cap (t.attisdropped \cup t.attgenerated) = {}

\* the relation with every replica identity, with and without a dropped
\* (username) and a generated (data) column and a column list
ColumnTables ==
    {t \in [name : {RelName}, oid : {16384}, relreplident : ReplIdents,
            attnotnull : {{1}, {1, 2}}, indexes : {{}},
            prattrs : {{}, {2, 4}, {1}}, attisdropped : {{}, {3}}, attgenerated : {{}, {4}},
            bool_text : {PgBoolText, LongBoolText}] : ValidColumnTable(t)}

\* a second relation beside it: the same columns, no index, no column list
PlainName == [schema |-> "public", name |-> "plain"]

PlainTable ==
    [name |-> PlainName, oid |-> 16385, relreplident |-> "d", attnotnull |-> {1},
     indexes |-> {}, prattrs |-> {}, attisdropped |-> {}, attgenerated |-> {},
     bool_text |-> PgBoolText]

MissingName == [schema |-> "public", name |-> "missing"]

\* pg_class with the relation t in it
Catalog(t) == {t, PlainTable}

\* how the server writes a boolean in a simple-query row
BoolText(b) == IF b THEN PgBoolText[1] ELSE PgBoolText[2]

\* how the server of relation c writes a boolean of one of c's rows
RowBool(c, b) == IF b THEN c.bool_text[1] ELSE c.bool_text[2]

RECURSIVE JoinWith(_, _)
JoinWith(names, sep) ==
    IF Len(names) = 0 THEN <<>>
    ELSE IF Len(names) = 1 THEN <<names[1]>>
    ELSE <<names[1], sep>> \o JoinWith(Tail(names), sep)

\* array_out of a name[]: the text of ARRAY_AGG(a.attname ...), one token per
\* brace, comma and name (the names here need no quoting in array text)
ArrayText(names) == <<"{">> \o JoinWith(names, ",") \o <<"}">>

(***************************************************************************)
(* Results: Result<T, ReplicationClientError> and Option<T>.               *)
(***************************************************************************)
Ok(v) == [ok |-> TRUE, val |-> v]

Err(e) == [ok |-> FALSE, err |-> e]

Some(x) == [some |-> TRUE, v |-> x]

NoneOpt == [some |-> FALSE]

FullRow == [kind |-> "FullRow"]

Key(index_name, cols) == [kind |-> "Key", name |-> index_name, columns |-> cols]

(***************************************************************************)
(* The server session.  Commands are the texts the client sends; a command *)
(* ends in an error either because of the session's state or because of a  *)
(* fault: "error" is an error raised before the command takes effect (a    *)
(* cancel, a timeout), "end_error" an error raised while COMMIT or         *)
(* ROLLBACK is ending the transaction.  An error inside a transaction      *)
(* block leaves the block open and aborted; an error while the block is    *)
(* being ended leaves no transaction.                                      *)
(***************************************************************************)
BEGIN == "begin read only isolation level repeatable read;"

COMMIT == "commit;"

ROLLBACK == "rollback;"

SELECT_SLOT == "select confirmed_flush_lsn from pg_replication_slots"

CREATE_SLOT == "CREATE_REPLICATION_SLOT LOGICAL pgoutput USE_SNAPSHOT"

QUERY == "select"

COPY == "COPY TO STDOUT"

START_REPLICATION == "START_REPLICATION SLOT LOGICAL"

SlotNames == {"slot_a"}

Lsns == 0..MaxLsn

NoFault == "none"

Faults == {NoFault, "error"}

EndFaults == {NoFault, "error", "end_error"}

\* a new session: no transaction block
IdleSession == [txn |-> "idle", fresh |-> FALSE, slot_txn |-> FALSE, streaming |-> FALSE]

\* pg_lsn_out: the two halves of an LSN, written "hi/lo" in hex
LsnText(lsn) == <<lsn \div HalfRange, lsn % HalfRange>>

\* replies a server can give to a command that succeeded: no row at all, or
\* a row whose LSN text is not "hi/lo"
ReplyFaults == {"no_row", "bad_lsn"}

\* the LSN column of a reply row
LsnReply(lsn, fault) == IF fault = "bad_lsn" THEN <<lsn>> ELSE LsnText(lsn)

\* the session after an error raised by a command that is not ending the block
AfterError(session) ==
    IF session.txn = "idle" THEN session ELSE [session EXCEPT !.txn = "aborted"]

\* the session after a command that ran in it
AfterCommand(session) == [session EXCEPT !.fresh = FALSE]

Failed(session, slot_rows) ==
    [srv |-> session, slots |-> slot_rows, ok |-> FALSE, rows |-> <<>>]

Done(session, slot_rows, result_rows) ==
    [srv |-> session, slots |-> slot_rows, ok |-> TRUE, rows |-> result_rows]

\* what the server does with one command: the session and the slots after
\* it, whether it succeeded, and the rows it returned
Exec(session, slot_rows, cmd, arg, fault) ==
    IF session.streaming THEN Failed(session, slot_rows)
    ELSE IF fault = "end_error" /\ cmd \in {COMMIT, ROLLBACK}
        THEN Failed(IdleSession, slot_rows)
    ELSE IF fault \notin {NoFault} \cup ReplyFaults
        THEN Failed(AfterError(session), slot_rows)
    ELSE IF cmd \in {COMMIT, ROLLBACK} THEN Done(IdleSession, slot_rows, <<>>)
    ELSE IF session.txn = "aborted" THEN Failed(session, slot_rows)
    ELSE IF cmd = BEGIN
        THEN IF session.txn = "idle"
                THEN Done([IdleSession EXCEPT !.txn = "open", !.fresh = TRUE], slot_rows, <<>>)
             ELSE Done(AfterCommand(session), slot_rows, <<>>)
    ELSE IF cmd = SELECT_SLOT
        THEN Done(AfterCommand(session), slot_rows,
                  IF slot_rows[arg].some /\ fault # "no_row"
                      THEN <<[confirmed_flush_lsn |-> LsnReply(slot_rows[arg].v, fault)]>>
                  ELSE <<>>)
    ELSE IF cmd = CREATE_SLOT
        THEN IF session.txn = "idle" \/ ~session.fresh \/ slot_rows[arg].some
                THEN Failed(AfterError(session), slot_rows)
             ELSE Done([AfterCommand(session) EXCEPT !.slot_txn = TRUE],
                       [slot_rows EXCEPT ![arg] = Some(wal)],
                       IF fault = "no_row" THEN <<>>
                       ELSE <<[consistent_point |-> LsnReply(wal, fault)]>>)
    ELSE IF cmd = START_REPLICATION
        THEN IF session.txn # "idle" \/ ~slot_rows[arg].some
                THEN Failed(AfterError(session), slot_rows)
             ELSE Done([session EXCEPT !.streaming = TRUE], slot_rows, <<>>)
    ELSE Done(AfterCommand(session), slot_rows, <<>>)

(***************************************************************************)
(* The client.  A world is the client's flag, the server beside it and the *)
(* commands the running operation has sent; every method maps a world to   *)
(* the world after it and its result.                                      *)
(***************************************************************************)
World == [in_txn |-> in_txn, srv |-> srv, slots |-> slots, sent |-> <<>>]

Unit == "()"

\* postgres_client.simple_query / copy_out_simple / copy_both_simple
Send(w, cmd, arg, fault) ==
    LET r == Exec(w.srv, w.slots, cmd, arg, fault)
    IN  [w |-> [w EXCEPT !.srv = r.srv, !.slots = r.slots,
                         !.sent = Append(@, [cmd |-> cmd, arg |-> arg, ok |-> r.ok,
                                             in_txn |-> w.in_txn, txn |-> w.srv.txn,
                                             fresh |-> w.srv.fresh,
                                             slot_txn |-> w.srv.slot_txn,
                                             rows |-> r.rows])],
         ok |-> r.ok, rows |-> r.rows]

Return(w, res) == [w |-> w, res |-> res]

\* PgLsn::from_str taking the halves of "hi/lo" in the wrong order
ParseLsn_HalvesSwapped(text) ==
    IF Len(text) = 2 /\ text[1] >= 0 /\ text[2] \in 0..(HalfRange - 1)
        THEN Ok(text[2] * HalfRange + text[1])
    ELSE Err("InvalidPgLsn")

\* PgLsn::from_str of the "hi/lo" text
ParseLsn(text) ==
    IF Len(text) = 2 /\ text[1] >= 0 /\ text[2] \in 0..(HalfRange - 1)
        THEN Ok(text[1] * HalfRange + text[2])
    ELSE Err("InvalidPgLsn")

\* begin_readonly_transaction setting the flag before the command is sent
begin_readonly_transaction_FlagFirst(w, fault) ==
    LET q == Send(w, BEGIN, Unit, fault)
    IN  IF ~q.ok THEN Return([q.w EXCEPT !.in_txn = TRUE], Err("TokioPostgresError"))
        ELSE Return([q.w EXCEPT !.in_txn = TRUE], Ok(Unit))

begin_readonly_transaction(w, fault) ==
    LET q == Send(w, BEGIN, Unit, fault)
    IN  IF ~q.ok THEN Return(q.w, Err("TokioPostgresError"))
        ELSE Return([q.w EXCEPT !.in_txn = TRUE], Ok(Unit))

\* commit_txn without its `if self.in_txn` test
commit_txn_Unconditional(w, fault) ==
    LET q == Send(w, COMMIT, Unit, fault)
    IN  IF ~q.ok THEN Return(q.w, Err("TokioPostgresError"))
        ELSE Return([q.w EXCEPT !.in_txn = FALSE], Ok(Unit))

commit_txn(w, fault) ==
    IF w.in_txn
        THEN LET q == Send(w, COMMIT, Unit, fault)
             IN  IF ~q.ok THEN Return(q.w, Err("TokioPostgresError"))
                 ELSE Return([q.w EXCEPT !.in_txn = FALSE], Ok(Unit))
    ELSE Return(w, Ok(Unit))

rollback_txn(w, fault) ==
    IF w.in_txn
        THEN LET q == Send(w, ROLLBACK, Unit, fault)
             IN  IF ~q.ok THEN Return(q.w, Err("TokioPostgresError"))
                 ELSE Return([q.w EXCEPT !.in_txn = FALSE], Ok(Unit))
    ELSE Return(w, Ok(Unit))

get_slot(w, slot_name, fault) ==
    LET q == Send(w, SELECT_SLOT, slot_name, fault)
        lsn == ParseLsn(q.rows[1].confirmed_flush_lsn)
    IN  IF ~q.ok THEN Return(q.w, Err("TokioPostgresError"))
        ELSE IF Len(q.rows) = 0 THEN Return(q.w, Ok(NoneOpt))
        ELSE IF ~lsn.ok THEN Return(q.w, lsn)
        ELSE Return(q.w, Ok(Some([confirmed_flush_lsn |-> lsn.val])))

\* create_slot taking the default LSN when the text does not parse
create_slot_DefaultOnBadLsn(w, slot_name, fault) ==
    LET q == Send(w, CREATE_SLOT, slot_name, fault)
        lsn == ParseLsn(q.rows[1].consistent_point)
    IN  IF ~q.ok THEN Return(q.w, Err("TokioPostgresError"))
        ELSE IF Len(q.rows) = 0 THEN Return(q.w, Err("FailedToCreateSlot"))
        ELSE IF ~lsn.ok THEN Return(q.w, Ok([confirmed_flush_lsn |-> 0]))
        ELSE Return(q.w, Ok([confirmed_flush_lsn |-> lsn.val]))

\* create_slot returning the default SlotInfo when its command failed
create_slot_ErrorSwallowed(w, slot_name, fault) ==
    LET q == Send(w, CREATE_SLOT, slot_name, fault)
        lsn == ParseLsn(q.rows[1].consistent_point)
    IN  IF ~q.ok THEN Return(q.w, Ok([confirmed_flush_lsn |-> 0]))
        ELSE IF Len(q.rows) = 0 THEN Return(q.w, Err("FailedToCreateSlot"))
        ELSE IF ~lsn.ok THEN Return(q.w, lsn)
        ELSE Return(q.w, Ok([confirmed_flush_lsn |-> lsn.val]))

create_slot(w, slot_name, fault) ==
    LET q == Send(w, CREATE_SLOT, slot_name, fault)
        lsn == ParseLsn(q.rows[1].consistent_point)
    IN  IF ~q.ok THEN Return(q.w, Err("TokioPostgresError"))
        ELSE IF Len(q.rows) = 0 THEN Return(q.w, Err("FailedToCreateSlot"))
        ELSE IF ~lsn.ok THEN Return(q.w, lsn)
        ELSE Return(q.w, Ok([confirmed_flush_lsn |-> lsn.val]))

\* get_or_create_slot without its `if let Some(slot) = ...` return
get_or_create_slot_AlwaysCreate(w, slot_name, faults) ==
    LET found == get_slot(w, slot_name, faults.get_slot)
        rolled == rollback_txn(found.w, faults.rollback)
        begun == begin_readonly_transaction(rolled.w, faults.begin)
    IN  IF ~found.res.ok THEN found
        ELSE IF ~rolled.res.ok THEN rolled
        ELSE IF ~begun.res.ok THEN begun
        ELSE create_slot(begun.w, slot_name, faults.create)

\* get_or_create_slot without its rollback_txn call
get_or_create_slot_NoRollback(w, slot_name, faults) ==
    LET found == get_slot(w, slot_name, faults.get_slot)
        begun == begin_readonly_transaction(found.w, faults.begin)
    IN  IF ~found.res.ok THEN found
        ELSE IF found.res.val.some THEN Return(found.w, Ok(found.res.val.v))
        ELSE IF ~begun.res.ok THEN begun
        ELSE create_slot(begun.w, slot_name, faults.create)

\* get_or_create_slot going on to the begin when its rollback failed
get_or_create_slot_IgnoreRollbackError(w, slot_name, faults) ==
    LET found == get_slot(w, slot_name, faults.get_slot)
        rolled == rollback_txn(found.w, faults.rollback)
        begun == begin_readonly_transaction(rolled.w, faults.begin)
    IN  IF ~found.res.ok THEN found
        ELSE IF found.res.val.some THEN Return(found.w, Ok(found.res.val.v))
        ELSE IF ~begun.res.ok THEN begun
        ELSE create_slot(begun.w, slot_name, faults.create)

\* faults: the fault of each command the call may send
get_or_create_slot(w, slot_name, faults) ==
    LET found == get_slot(w, slot_name, faults.get_slot)
        rolled == rollback_txn(found.w, faults.rollback)
        begun == begin_readonly_transaction(rolled.w, faults.begin)
    IN  IF ~found.res.ok THEN found
        ELSE IF found.res.val.some THEN Return(found.w, Ok(found.res.val.v))
        ELSE IF ~rolled.res.ok THEN rolled
        ELSE IF ~begun.res.ok THEN begun
        ELSE create_slot(begun.w, slot_name, faults.create)

NoSlotFaults ==
    [get_slot |-> NoFault, rollback |-> NoFault, begin |-> NoFault, create |-> NoFault]

\* at most one command of a call is hit by a fault: the call ends there
SlotFaults ==
    {NoSlotFaults,
     [NoSlotFaults EXCEPT !.get_slot = "error"],
     [NoSlotFaults EXCEPT !.rollback = "error"],
     [NoSlotFaults EXCEPT !.rollback = "end_error"],
     [NoSlotFaults EXCEPT !.begin = "error"],
     [NoSlotFaults EXCEPT !.create = "error"]}

(***************************************************************************)
(* Catalog discovery.  A query that fails on the wire returns              *)
(* TokioPostgresError through the `?` after simple_query; `fail` says      *)
(* whether this call's query does.                                         *)
(***************************************************************************)
TableNames == {RelName, MissingName}

\* the publication whose pg_publication_rel row carries table.prattrs
PubName == "pub"

NoPub == "NoPub"

\* the rows of table_info_query: (nspname, relname) names at most one relation
TableInfoRows(t, table_name) == {c \in Catalog(t) : c.name = table_name}

\* get_table_id without its replica identity test
get_table_id_AnyIdentity(t, table_name, fail) ==
    IF fail THEN Err("TokioPostgresError")
    ELSE IF TableInfoRows(t, table_name) = {} THEN Ok(NoneOpt)
    ELSE Ok(Some((CHOOSE c \in TableInfoRows(t, table_name) : TRUE).oid))

get_table_id(t, table_name, fail) ==
    IF fail THEN Err("TokioPostgresError")
    ELSE IF TableInfoRows(t, table_name) = {} THEN Ok(NoneOpt)
    ELSE LET row == CHOOSE c \in TableInfoRows(t, table_name) : TRUE
         IN  IF ~(row.relreplident = "d" \/ row.relreplident = "f")
                 THEN Err("ReplicaIdentityNotSupported")
             ELSE Ok(Some(row.oid))

\* a publication that exists and holds no relation
OtherPub == "other"

\* pg_publication.pubname
Publications == {PubName, OtherPub}

\* the rows of pg_publication_tables for a publication
PublicationTables(t, publication) == IF publication = PubName THEN <<t.name>> ELSE <<>>

get_publication_table_names(t, publication, fail) ==
    IF fail THEN Err("TokioPostgresError")
    ELSE Ok(PublicationTables(t, publication))

publication_exists(t, publication, fail) ==
    IF fail THEN Err("TokioPostgresError")
    ELSE Ok(publication \in Publications)

\* the pub_attrs CTE without its r.prrelid = table_id condition
pub_attrs_AnyRelation(t, table_id, publication) ==
    IF publication = PubName THEN UNION {c.prattrs : c \in Catalog(t)} ELSE {}

\* the pub_attrs CTE: unnest(r.prattrs) of the publication's row for the table
pub_attrs(t, table_id, publication) ==
    IF publication = PubName
        THEN UNION {c.prattrs : c \in {r \in Catalog(t) : r.oid = table_id}}
    ELSE {}

\* ORDER BY a.attnum: the attnums of a set, ascending
RECURSIVE OrderByAttnum(_)
OrderByAttnum(attnums) ==
    IF attnums = {} THEN <<>>
    ELSE LET least == CHOOSE n \in attnums : \A m \in attnums : n <= m
         IN  <<least>> \o OrderByAttnum(attnums \ {least})

\* the rows of column_info_query
ColumnInfoRows(t, table_id, publication) ==
    LET pub_pred(n) ==
            IF publication = NoPub THEN TRUE
            ELSE IF Cardinality(pub_attrs(t, table_id, publication)) = 0 THEN TRUE
            ELSE n \in pub_attrs(t, table_id, publication)
        rel == {c \in Catalog(t) : c.oid = table_id}
        selected(c, n) ==
            /\ n > 0
            /\ n \notin c.attisdropped
            /\ n \notin c.attgenerated
            /\ pub_pred(n)
        attnums == OrderByAttnum(UNION {{n \in SystemAttNums \cup AttNums : selected(c, n)} :
                                           c \in rel})
    IN  [p \in 1..Len(attnums) |->
            [attname |-> AttName(attnums[p]),
             attnotnull |-> CHOOSE text \in {RowBool(c, attnums[p] \in c.attnotnull) :
                                                 c \in rel} : TRUE]]

\* nullable read as "not the text t"
nullable_NotT(attnotnull) == attnotnull # "t"

\* lines 238-244: nullable of a row's attnotnull text
nullable(attnotnull) == attnotnull = "f"

get_column_schemas(t, table_id, publication, fail) ==
    IF fail THEN Err("TokioPostgresError")
    ELSE LET rows == ColumnInfoRows(t, table_id, publication)
         IN  Ok([p \in 1..Len(rows) |->
                    [name |-> rows[p].attname, nullable |-> nullable(rows[p].attnotnull)]])

\* the WHERE clause without its NOT EXISTS (... a2.attnotnull = false) test
IndexQualifies_NullableKept(t, i) ==
    /\ i.indisunique \/ i.indisprimary
    /\ ~i.indpred

\* the WHERE clause of key_query; the bare attnum of its NOT EXISTS subquery
\* is read as the unnested indkey element, so the subquery finds the
\* columns of the index whose attnotnull is false
IndexQualifies(t, i) ==
    /\ i.indisunique \/ i.indisprimary
    /\ ~i.indpred
    /\ ~\E p \in 1..Len(i.indkey) : ~(i.indkey[p] \in t.attnotnull)

\* ORDER BY c2.relname alone
OrderBefore_ByNameOnly(i, j) == i.relname < j.relname

\* ORDER BY i.indisprimary DESC, c2.relname
OrderBefore(i, j) ==
    \/ i.indisprimary /\ ~j.indisprimary
    \/ i.indisprimary = j.indisprimary /\ i.relname < j.relname

\* the rows key_query returns: LIMIT 1 keeps the first of the ordered rows
KeyQueryRows(t, table_id) ==
    LET c1 == {c \in Catalog(t) : c.oid = table_id}
        matching == UNION {{i \in c.indexes : IndexQualifies(c, i)} : c \in c1}
        first == CHOOSE i \in matching : \A j \in matching \ {i} : OrderBefore(i, j)
    IN  IF matching = {} THEN <<>>
        ELSE <<[index_name |-> first.relname,
                columns |-> ArrayText([p \in 1..Len(first.indkey) |-> Columns[first.indkey[p]]]),
                is_primary |-> BoolText(first.indisprimary)]>>

\* str::trim_matches(ch): drop every leading and trailing ch
RECURSIVE TrimStart(_, _)
TrimStart(text, ch) ==
    IF Len(text) > 0 /\ text[1] = ch THEN TrimStart(Tail(text), ch) ELSE text

RECURSIVE TrimEnd(_, _)
TrimEnd(text, ch) ==
    IF Len(text) > 0 /\ text[Len(text)] = ch
        THEN TrimEnd(SubSeq(text, 1, Len(text) - 1), ch)
    ELSE text

trim_matches(text, ch) == TrimEnd(TrimStart(text, ch), ch)

\* str::split(','): the pieces between commas; an empty text gives one empty piece
RECURSIVE SplitFrom(_, _, _)
SplitFrom(text, sep, piece) ==
    IF Len(text) = 0 THEN <<piece>>
    ELSE IF text[1] = sep THEN <<piece>> \o SplitFrom(Tail(text), sep, <<>>)
    ELSE SplitFrom(Tail(text), sep, piece \o <<text[1]>>)

split(text, sep) == SplitFrom(text, sep, <<>>)

\* a piece as a String: a name token, or "" for an empty piece
PieceString(piece) == IF Len(piece) = 0 THEN "" ELSE piece[1]

\* the columns of a key_query row, lines 293-300
ParseColumns(text) ==
    LET pieces == split(trim_matches(trim_matches(text, "{"), "}"), ",")
    IN  [p \in 1..Len(pieces) |-> PieceString(pieces[p])]

\* the row's key returned without looking at the published columns
AllPublished_Unchecked(columns, published_column_names) == TRUE

\* whether the row's key is returned, lines 302-305
AllPublished(columns, published_column_names) ==
    \A p \in 1..Len(columns) : columns[p] \in published_column_names

RECURSIVE FirstPublishedRow(_, _)
FirstPublishedRow(rows, published_column_names) ==
    IF Len(rows) = 0 THEN NoneOpt
    ELSE IF AllPublished(ParseColumns(rows[1].columns), published_column_names)
        THEN Some(Key(rows[1].index_name, ParseColumns(rows[1].columns)))
    ELSE FirstPublishedRow(Tail(rows), published_column_names)

query_lookup_key(t, table_id, published_column_names, fail) ==
    IF fail THEN Err("TokioPostgresError")
    ELSE Ok(FirstPublishedRow(KeyQueryRows(t, table_id), published_column_names))

get_lookup_key(t, table_id, column_schemas, fail) ==
    LET column_names == {column_schemas[p].name : p \in 1..Len(column_schemas)}
        unique_index_key == query_lookup_key(t, table_id, column_names, fail)
    IN  IF ~unique_index_key.ok THEN unique_index_key
        ELSE IF unique_index_key.val.some THEN Ok(unique_index_key.val.v)
        ELSE Ok(FullRow)

\* faults: the fault of each of the call's three queries
get_table_schema(w, t, table_name, publication, faults) ==
    LET q1 == Send(w, QUERY, "get_table_id", faults[1])
        id == get_table_id(t, table_name, ~q1.ok)
        table_id == id.val.v
        q2 == Send(q1.w, QUERY, "get_column_schemas", faults[2])
        columns == get_column_schemas(t, table_id, publication, ~q2.ok)
        q3 == Send(q2.w, QUERY, "get_lookup_key", faults[3])
        key == get_lookup_key(t, table_id, columns.val, ~q3.ok)
    IN  IF ~id.ok THEN Return(q1.w, id)
        ELSE IF ~id.val.some THEN Return(q1.w, Err("MissingTable"))
        ELSE IF ~columns.ok THEN Return(q2.w, columns)
        ELSE IF ~key.ok THEN Return(q3.w, key)
        ELSE Return(q3.w, Ok([table_name |-> table_name, table_id |-> table_id,
                              column_schemas |-> columns.val, lookup_key |-> key.val]))

\* TableSchema::has_safe_lookup_key
has_safe_lookup_key(schema) == schema.lookup_key.kind = "Key"

\* the loop of get_table_schemas without its has_safe_lookup_key test
RECURSIVE get_table_schemas_from_NoSkip(_, _, _, _, _, _, _)
get_table_schemas_from_NoSkip(w, t, table_names, publication, faults, at, table_schemas) ==
    IF at > Len(table_names) THEN Return(w, Ok(table_schemas))
    ELSE LET rest(one) ==
                 IF ~one.res.ok THEN one
                 ELSE get_table_schemas_from_NoSkip(
                          one.w, t, table_names, publication, faults, at + 1,
                          {e \in table_schemas : e.table_id # one.res.val.table_id}
                              \cup {[table_id |-> one.res.val.table_id,
                                     table_schema |-> one.res.val]})
         IN  CHOOSE r \in {rest(one) : one \in {get_table_schema(w, t, table_names[at],
                                                                  publication, faults[at])}} : TRUE

\* the loop of get_table_schemas from table `at` on; table_schemas is the
\* HashMap so far, as the set of its (table_id, table_schema) entries
RECURSIVE get_table_schemas_from(_, _, _, _, _, _, _)
get_table_schemas_from(w, t, table_names, publication, faults, at, table_schemas) ==
    IF at > Len(table_names) THEN Return(w, Ok(table_schemas))
    ELSE LET rest(one) ==
                 IF ~one.res.ok THEN one
                 ELSE IF ~has_safe_lookup_key(one.res.val)
                     THEN get_table_schemas_from(one.w, t, table_names, publication, faults,
                                                 at + 1, table_schemas)
                 ELSE get_table_schemas_from(
                          one.w, t, table_names, publication, faults, at + 1,
                          {e \in table_schemas : e.table_id # one.res.val.table_id}
                              \cup {[table_id |-> one.res.val.table_id,
                                     table_schema |-> one.res.val]})
         IN  CHOOSE r \in {rest(one) : one \in {get_table_schema(w, t, table_names[at],
                                                                  publication, faults[at])}} : TRUE

get_table_schemas(w, t, table_names, publication, faults) ==
    get_table_schemas_from(w, t, table_names, publication, faults, 1, {})

\* get_table_copy_stream ending the snapshot transaction once the copy started
get_table_copy_stream_Commits(w, table_name, fault) ==
    LET q == Send(w, COPY, table_name, fault)
    IN  IF ~q.ok THEN Return(q.w, Err("TokioPostgresError"))
        ELSE Return(commit_txn(q.w, NoFault).w, Ok("CopyOutStream"))

get_table_copy_stream(w, table_name, fault) ==
    LET q == Send(w, COPY, table_name, fault)
    IN  IF ~q.ok THEN Return(q.w, Err("TokioPostgresError"))
        ELSE Return(q.w, Ok("CopyOutStream"))

\* START_REPLICATION sent from inside a transaction the call opens first
get_logical_replication_stream_InTxn(w, publication, slot_name, start_lsn, fault) ==
    LET begun == begin_readonly_transaction(w, NoFault)
        q == Send(begun.w, START_REPLICATION, slot_name, fault)
    IN  IF ~q.ok THEN Return(q.w, Err("TokioPostgresError"))
        ELSE Return(q.w, Ok("LogicalReplicationStream"))

get_logical_replication_stream(w, publication, slot_name, start_lsn, fault) ==
    LET q == Send(w, START_REPLICATION, slot_name, fault)
    IN  IF ~q.ok THEN Return(q.w, Err("TokioPostgresError"))
        ELSE Return(q.w, Ok("LogicalReplicationStream"))

(***************************************************************************)
(* The operations as actions.  `last` keeps what the operation that        *)
(* returned last was given, sent and returned; `phase` follows the caller  *)
(* through the expected lifecycle (begin, slot, schemas and copies,        *)
(* commit, stream) for as long as it keeps to it and every step succeeds.  *)
(***************************************************************************)
Connected == [step |-> "connected", created |-> FALSE, copied |-> FALSE]

OffLifecycle == [step |-> "off", created |-> FALSE, copied |-> FALSE]

Commands(sent) == [p \in 1..Len(sent) |-> sent[p].cmd]

NextPhase(ph, op, out) ==
    IF ph.step = "connected" /\ op = "begin_readonly_transaction" /\ out.res.ok
        THEN [ph EXCEPT !.step = "begun"]
    ELSE IF ph.step = "begun" /\ op = "get_or_create_slot" /\ out.res.ok
        THEN [ph EXCEPT !.step = "slot",
                        !.created = \E p \in 1..Len(out.w.sent) :
                                        out.w.sent[p].cmd = CREATE_SLOT]
    ELSE IF /\ ph.step = "slot" /\ out.res.ok
            /\ op \in {"get_table_schemas", "get_table_copy_stream"}
        THEN [ph EXCEPT !.copied = TRUE]
    ELSE IF ph.step = "slot" /\ op = "commit_txn" /\ out.res.ok
        THEN [ph EXCEPT !.step = "committed"]
    ELSE IF ph.step = "committed" /\ op = "get_logical_replication_stream"
        THEN [ph EXCEPT !.step = "streamed"]
    ELSE OffLifecycle

\* the caller has seen no LSN of any slot
NothingObserved == [s \in SlotNames |-> [previous |-> NoneOpt, latest |-> NoneOpt]]

\* the caller sees get_or_create_slot return lsn for the slot
Observe(slot_name, lsn) ==
    [observed EXCEPT ![slot_name] = [previous |-> @.latest, latest |-> Some(lsn)]]

\* no other client
NoPeers == <<>>

\* the operation op(arg) ran from the current state and ended as `out`
Returns(op, arg, result) ==
  \E out \in {result} :
    /\ in_txn' = out.w.in_txn
    /\ srv' = out.w.srv
    /\ slots' = out.w.slots
    /\ last' = [op |-> op, arg |-> arg, pre_in_txn |-> in_txn, pre_slots |-> slots,
                sent |-> out.w.sent, res |-> out.res]
    /\ phase' = NextPhase(phase, op, out)
    /\ observed' = IF op = "get_or_create_slot" /\ out.res.ok
                       THEN Observe(arg, out.res.val.confirmed_flush_lsn)
                   ELSE observed
    /\ UNCHANGED <<wal, table, peers>>

\* connect_no_tls: a new client on a new session; the old session is gone
Connect ==
    /\ in_txn' = FALSE
    /\ srv' = IdleSession
    /\ last' = [op |-> "connect_no_tls", arg |-> Unit, pre_in_txn |-> FALSE,
                pre_slots |-> slots, sent |-> <<>>, res |-> Ok(Unit)]
    /\ phase' = Connected
    /\ UNCHANGED <<slots, wal, table, observed, peers>>

BeginReadonlyTransaction ==
    \E fault \in Faults :
        Returns("begin_readonly_transaction", Unit, begin_readonly_transaction(World, fault))

CommitTxn ==
    \E fault \in EndFaults :
        Returns("commit_txn", Unit, commit_txn(World, fault))

GetOrCreateSlot ==
    \E slot_name \in SlotNames, faults \in SlotFaults :
        Returns("get_or_create_slot", slot_name,
                get_or_create_slot(World, slot_name, faults))

NoFaults == [k \in 1..3 |-> NoFault]

\* the faults of a get_table_schemas call whose failAt-th query fails
FaultsAt(failAt) ==
    [at \in 1..2 |-> [k \in 1..3 |-> IF 3 * (at - 1) + k = failAt THEN "error" ELSE NoFault]]

TableLists == {<<>>, <<RelName>>, <<PlainName, RelName>>, <<RelName, MissingName>>}

GetTableSchemas ==
    \E table_names \in TableLists, publication \in {NoPub, PubName} :
      \E failAt \in 0..(IF publication = PubName THEN 3 * Len(table_names) ELSE 0) :
        Returns("get_table_schemas",
                [table_names |-> table_names, publication |-> publication],
                get_table_schemas(World, table, table_names, publication, FaultsAt(failAt)))

GetTableSchema ==
    \E table_name \in TableNames, publication \in {NoPub, PubName} :
        Returns("get_table_schema", table_name,
                get_table_schema(World, table, table_name, publication, NoFaults))

\* the public methods that send one catalog query
GetTableId ==
    \E table_name \in {RelName, PlainName, MissingName}, fault \in Faults :
      \E q \in {Send(World, QUERY, "get_table_id", fault)} :
        Returns("get_table_id", table_name,
                Return(q.w, get_table_id(table, table_name, ~q.ok)))

GetColumnSchemas ==
    \E table_id \in {c.oid : c \in Catalog(table)},
       publication \in {NoPub} \cup Publications, fault \in Faults :
      \E q \in {Send(World, QUERY, "get_column_schemas", fault)} :
        Returns("get_column_schemas", [table_id |-> table_id, publication |-> publication],
                Return(q.w, get_column_schemas(table, table_id, publication, ~q.ok)))

GetLookupKey ==
    \E table_id \in {c.oid : c \in Catalog(table)}, publication \in {NoPub, PubName},
       fault \in Faults :
      \E q \in {Send(World, QUERY, "get_lookup_key", fault)},
         column_schemas \in {get_column_schemas(table, table_id, publication, FALSE).val} :
        Returns("get_lookup_key", [table_id |-> table_id, column_schemas |-> column_schemas],
                Return(q.w, get_lookup_key(table, table_id, column_schemas, ~q.ok)))

GetPublicationTableNames ==
    \E publication \in Publications, fault \in Faults :
      \E q \in {Send(World, QUERY, "get_publication_table_names", fault)} :
        Returns("get_publication_table_names", publication,
                Return(q.w, get_publication_table_names(table, publication, ~q.ok)))

PublicationExists ==
    \E publication \in Publications \cup {"absent"}, fault \in Faults :
      \E q \in {Send(World, QUERY, "publication_exists", fault)} :
        Returns("publication_exists", publication,
                Return(q.w, publication_exists(table, publication, ~q.ok)))

GetTableCopyStream ==
    \E fault \in Faults :
        Returns("get_table_copy_stream", RelName,
                get_table_copy_stream(World, RelName, fault))

GetLogicalReplicationStream ==
    \E slot_name \in SlotNames, start_lsn \in Lsns, fault \in Faults :
        Returns("get_logical_replication_stream", slot_name,
                get_logical_replication_stream(World, PubName, slot_name, start_lsn, fault))

\* the server writes WAL
WalAdvance ==
    /\ wal < MaxLsn
    /\ wal' = wal + 1
    /\ UNCHANGED <<in_txn, srv, slots, last, phase, table, observed, peers>>

\* a consumer of the slot confirms what it has flushed
ConfirmFlush ==
    \E slot_name \in SlotNames :
        /\ slots[slot_name].some
        /\ slots[slot_name].v < wal
        /\ slots' = [slots EXCEPT ![slot_name] = Some(@.v + 1)]
        /\ UNCHANGED <<in_txn, srv, wal, last, phase, table, observed, peers>>

\* one client just connected, an empty server
ClientInit ==
    /\ in_txn = FALSE
    /\ srv = IdleSession
    /\ slots = [s \in SlotNames |-> NoneOpt]
    /\ wal = 0
    /\ last = [op |-> "connect_no_tls", arg |-> Unit, pre_in_txn |-> FALSE,
               pre_slots |-> [s \in SlotNames |-> NoneOpt], sent |-> <<>>, res |-> Ok(Unit)]
    /\ phase = Connected
    /\ observed = NothingObserved

\* the table of the session specification: a primary key on id, a unique
\* index on email NOT NULL, published with the column list (email, data)
SessionTable ==
    [name |-> RelName, oid |-> 16384, relreplident |-> "d", attnotnull |-> {1, 2},
     indexes |-> {[relname |-> 2, indkey |-> <<1>>, indisunique |-> TRUE,
                   indisprimary |-> TRUE, indpred |-> FALSE, condeferrable |-> FALSE],
                  [relname |-> 1, indkey |-> <<2>>, indisunique |-> TRUE,
                   indisprimary |-> FALSE, indpred |-> FALSE, condeferrable |-> FALSE]},
     prattrs |-> {2, 4}, attisdropped |-> {}, attgenerated |-> {},
     bool_text |-> PgBoolText]

SessionInit ==
    /\ ClientInit
    /\ peers = NoPeers

Init == SessionInit /\ table = SessionTable

Next ==
    \/ Connect
    \/ BeginReadonlyTransaction
    \/ CommitTxn
    \/ GetOrCreateSlot
    \/ GetTableSchemas
    \/ GetTableId
    \/ GetColumnSchemas
    \/ GetLookupKey
    \/ GetPublicationTableNames
    \/ PublicationExists
    \/ GetTableCopyStream
    \/ GetLogicalReplicationStream
    \/ WalAdvance
    \/ ConfirmFlush

Spec == Init /\ [][Next]_vars

(***************************************************************************)
(* ColumnSpec: get_table_id and get_column_schemas over a relation drawn   *)
(* from ColumnTables.                                                      *)
(***************************************************************************)
ColumnInit == SessionInit /\ table \in ColumnTables

ColumnNext == GetTableId \/ GetColumnSchemas

ColumnSpec == ColumnInit /\ [][ColumnNext]_vars

(***************************************************************************)
(* SlotSpec: get_slot and create_slot on their own, against a server whose *)
(* reply may lack the row or carry an LSN text that does not parse.        *)
(***************************************************************************)
GetSlot ==
    \E slot_name \in SlotNames, fault \in Faults \cup ReplyFaults :
        Returns("get_slot", slot_name, get_slot(World, slot_name, fault))

CreateSlot ==
    \E slot_name \in SlotNames, fault \in Faults \cup ReplyFaults :
        Returns("create_slot", slot_name, create_slot(World, slot_name, fault))

SlotNext ==
    \/ Connect
    \/ BeginReadonlyTransaction
    \/ CommitTxn
    \/ GetSlot
    \/ CreateSlot
    \/ WalAdvance
    \/ ConfirmFlush

SlotSpec == Init /\ [][SlotNext]_vars

(***************************************************************************)
(* ConcurrentSpec: two clients, each on its own session, inside            *)
(* get_or_create_slot for the same slot name; a step is one call of        *)
(* get_or_create_slot's body (get_slot, rollback_txn,                      *)
(* begin_readonly_transaction, create_slot), so the commands of the two    *)
(* interleave in every order.                                              *)
(***************************************************************************)
Clients == {1, 2}

TheSlot == CHOOSE s \in SlotNames : TRUE

\* a client entering get_or_create_slot outside or inside a transaction
PeerStarts ==
    {[pc |-> "get_slot", in_txn |-> FALSE, srv |-> IdleSession, sent |-> <<>>, res |-> Unit],
     [pc |-> "get_slot", in_txn |-> TRUE, srv |-> [IdleSession EXCEPT !.txn = "open"],
      sent |-> <<>>, res |-> Unit]}

PeerWorld(c) ==
    [in_txn |-> peers[c].in_txn, srv |-> peers[c].srv, slots |-> slots, sent |-> peers[c].sent]

\* client c is at `pc`, its call there ended as `out`; it returns out.res
\* when `returns`, else goes on to `next`
PeerStep(c, out, returns, next) ==
    /\ peers' = [peers EXCEPT ![c] =
                     [pc |-> IF returns THEN "returned" ELSE next,
                      in_txn |-> out.w.in_txn, srv |-> out.w.srv, sent |-> out.w.sent,
                      res |-> IF returns THEN out.res ELSE Unit]]
    /\ slots' = out.w.slots
    /\ UNCHANGED <<in_txn, srv, wal, last, phase, table, observed>>

PeerGetSlot(c) ==
    /\ peers[c].pc = "get_slot"
    /\ \E out \in {get_slot(PeerWorld(c), TheSlot, NoFault)} :
           IF out.res.ok /\ out.res.val.some
               THEN PeerStep(c, Return(out.w, Ok(out.res.val.v)), TRUE, "returned")
           ELSE PeerStep(c, out, ~out.res.ok, "rollback_txn")

PeerRollbackTxn(c) ==
    /\ peers[c].pc = "rollback_txn"
    /\ \E out \in {rollback_txn(PeerWorld(c), NoFault)} :
           PeerStep(c, out, ~out.res.ok, "begin_readonly_transaction")

PeerBeginReadonlyTransaction(c) ==
    /\ peers[c].pc = "begin_readonly_transaction"
    /\ \E out \in {begin_readonly_transaction(PeerWorld(c), NoFault)} :
           PeerStep(c, out, ~out.res.ok, "create_slot")

PeerCreateSlot(c) ==
    /\ peers[c].pc = "create_slot"
    /\ \E out \in {create_slot(PeerWorld(c), TheSlot, NoFault)} :
           PeerStep(c, out, TRUE, "returned")

\* the server writes WAL while the clients run
PeerWalAdvance ==
    /\ wal < MaxLsn
    /\ wal' = wal + 1
    /\ UNCHANGED <<in_txn, srv, slots, last, phase, table, observed, peers>>

ConcurrentInit ==
    /\ ClientInit
    /\ table = SessionTable
    /\ peers \in [Clients -> PeerStarts]

ConcurrentNext ==
    \/ \E c \in Clients : PeerGetSlot(c)
    \/ \E c \in Clients : PeerRollbackTxn(c)
    \/ \E c \in Clients : PeerBeginReadonlyTransaction(c)
    \/ \E c \in Clients : PeerCreateSlot(c)
    \/ PeerWalAdvance

ConcurrentSpec == ConcurrentInit /\ [][ConcurrentNext]_vars

(***************************************************************************)
(* Claims about the transaction flag and the slot, checked under Spec on   *)
(* what the operation that returned last was given, sent and returned.     *)
(***************************************************************************)
SentCount(cmd) == Cardinality({p \in 1..Len(last.sent) : last.sent[p].cmd = cmd})

AllSentOk == \A p \in 1..Len(last.sent) : last.sent[p].ok

SlotExisted == last.op = "get_or_create_slot" /\ last.pre_slots[last.arg].some

SlotAbsent == last.op = "get_or_create_slot" /\ ~last.pre_slots[last.arg].some

\* the commands of get_or_create_slot for an absent slot, in order
CreateCommands ==
    <<SELECT_SLOT>> \o (IF last.pre_in_txn THEN <<ROLLBACK>> ELSE <<>>)
                   \o <<BEGIN, CREATE_SLOT>>

\* C1: get_or_create_slot on an existing slot sends the slot lookup only (no
\* rollback, begin or CREATE_REPLICATION_SLOT), leaves in_txn as it was, and
\* when the lookup succeeds returns the slot's confirmed_flush_lsn and leaves
\* the server's transaction as it was.
C1_ExistingSlotUntouched ==
    SlotExisted =>
        /\ Commands(last.sent) = <<SELECT_SLOT>>
        /\ in_txn = last.pre_in_txn
        /\ last.sent[1].ok =>
               /\ last.res = Ok([confirmed_flush_lsn |-> last.pre_slots[last.arg].v])
               /\ srv.txn = last.sent[1].txn

\* C1 happened: an existing slot with a confirmed LSN above 0 was returned
\* to a client inside a transaction
C1_Witness ==
    /\ SlotExisted /\ last.pre_in_txn /\ last.res.ok
    /\ last.res.val.confirmed_flush_lsn > 0
    /\ srv.txn = "open"

\* C2: get_or_create_slot on an absent slot sends, after the lookup, a
\* rollback (only if in_txn was true), the begin and CREATE_REPLICATION_SLOT
\* in this order, stopping at the first command that fails; every
\* CREATE_REPLICATION_SLOT directly follows the begin and reaches the server
\* as the first command of a newly opened transaction; on success in_txn is
\* true.
C2_AbsentSlotCreatedInNewTxn ==
    SlotAbsent =>
        /\ Len(last.sent) <= Len(CreateCommands)
        /\ Commands(last.sent) = SubSeq(CreateCommands, 1, Len(last.sent))
        /\ AllSentOk => Commands(last.sent) = CreateCommands
        /\ \A p \in 1..Len(last.sent) :
               last.sent[p].cmd = CREATE_SLOT =>
                   /\ p > 1 /\ last.sent[p - 1].cmd = BEGIN
                   /\ last.sent[p].txn = "open" /\ last.sent[p].fresh
        /\ last.res.ok => in_txn /\ srv.txn = "open" /\ slots[last.arg].some

\* C2 happened: a client inside a transaction got a slot created after a
\* rollback and a new begin
C2_Witness ==
    /\ SlotAbsent /\ last.pre_in_txn /\ last.res.ok
    /\ Commands(last.sent) = <<SELECT_SLOT, ROLLBACK, BEGIN, CREATE_SLOT>>
    /\ last.sent[1].txn = "open"

\* C3: commit_txn with in_txn false sends nothing, succeeds and leaves in_txn
\* false; with in_txn true it sends the commit once and clears in_txn when
\* it succeeds.  rollback_txn, seen inside get_or_create_slot on an absent
\* slot whose lookup succeeded: no rollback is sent when in_txn was false,
\* exactly one when it was true, and the begin that follows a rollback that
\* succeeded finds in_txn false.
C3_EndTxnOnlyWhenInTxn ==
    /\ last.op = "commit_txn" =>
           IF last.pre_in_txn
               THEN /\ Commands(last.sent) = <<COMMIT>>
                    /\ last.res.ok = last.sent[1].ok
                    /\ last.res.ok => ~in_txn
           ELSE last.sent = <<>> /\ last.res = Ok(Unit) /\ ~in_txn
    /\ (SlotAbsent /\ last.sent[1].ok) =>
           /\ SentCount(ROLLBACK) = (IF last.pre_in_txn THEN 1 ELSE 0)
           /\ \A p \in 1..Len(last.sent) :
                  last.sent[p].cmd = ROLLBACK => last.sent[p].in_txn
           /\ \A p \in 1..Len(last.sent) :
                  last.sent[p].cmd = BEGIN => ~last.sent[p].in_txn

\* C3 happened: commit_txn returned success without a transaction to commit
C3_Witness ==
    /\ last.op = "commit_txn" /\ ~last.pre_in_txn
    /\ last.sent = <<>> /\ last.res.ok /\ ~in_txn

\* C4: after every operation has returned, in_txn is true exactly when a
\* transaction block (running or aborted) is open on the server session.
C4_FlagMatchesSession == in_txn <=> srv.txn # "idle"

\* C5: along the expected lifecycle with every step succeeding, the schema
\* queries and the COPYs that follow the creation of a slot reach the server
\* in the transaction in which CREATE_REPLICATION_SLOT ran, and
\* START_REPLICATION is sent with in_txn false and no transaction open on the
\* session, whether the slot was created or found.
C5_LifecycleTransactions ==
    /\ (/\ phase.step = "slot" /\ phase.created
        /\ last.op \in {"get_table_schemas", "get_table_copy_stream"}) =>
           \A p \in 1..Len(last.sent) :
               last.sent[p].txn = "open" /\ last.sent[p].slot_txn
    /\ phase.step = "streamed" =>
           /\ SentCount(START_REPLICATION) = 1
           /\ \A p \in 1..Len(last.sent) :
                  last.sent[p].cmd = START_REPLICATION =>
                      ~last.sent[p].in_txn /\ last.sent[p].txn = "idle"

\* C5 happened: the stream of a slot created in this lifecycle, after schema
\* queries or COPYs in its transaction, was opened
C5_Witness ==
    /\ phase.step = "streamed" /\ phase.created /\ phase.copied
    /\ last.res.ok /\ srv.streaming

(***************************************************************************)
(* KeySpec: get_table_schema over every table of the family.               *)
(***************************************************************************)
KeyInit == SessionInit /\ table \in Tables

KeyNext == GetTableSchema

KeySpec == KeyInit /\ [][KeyNext]_vars

(***************************************************************************)
(* Claims about get_lookup_key, checked under KeySpec on the lookup key    *)
(* and the column schemas of the TableSchema that get_table_schema built.  *)
(***************************************************************************)
Returned == last.op = "get_table_schema" /\ last.res.ok

column_schemas == last.res.val.column_schemas

lookup_key == last.res.val.lookup_key

\* P: the names of the column schemas given to get_lookup_key
Published == {column_schemas[p].name : p \in 1..Len(column_schemas)}

IndexColumns(i) == [p \in 1..Len(i.indkey) |-> Columns[i.indkey[p]]]

IndexColumnSet(i) == {Columns[i.indkey[p]] : p \in 1..Len(i.indkey)}

HasNullableColumn(i) == \E p \in 1..Len(i.indkey) : i.indkey[p] \notin table.attnotnull

UniqueIndexes == {i \in table.indexes : i.indisunique \/ i.indisprimary}

\* the candidates: unique or primary, non-partial, all columns NOT NULL
Candidates == {i \in UniqueIndexes : ~i.indpred /\ ~HasNullableColumn(i)}

\* primary first, then index name ascending
Precedes(i, j) ==
    IF i.indisprimary # j.indisprimary THEN i.indisprimary ELSE i.relname < j.relname

Least(i, among) == i \in among /\ \A j \in among \ {i} : Precedes(i, j)

IsKeyOf(key, i) == key = Key(i.relname, IndexColumns(i))

\* C6: the result is Key for the first candidate (primary first, then name
\* ascending) whose columns are all published, and FullRow only when no
\* candidate has all its columns published.
C6_FirstPublishedCandidate ==
    Returned =>
        LET published == {i \in Candidates : IndexColumnSet(i) \subseteq Published}
        IN  IF published = {} THEN lookup_key = FullRow
            ELSE \E i \in published : Least(i, published) /\ IsKeyOf(lookup_key, i)

C8_NeverDeferrable ==
    Returned =>
        /\ lookup_key.kind = "Key" =>
               \A i \in table.indexes : i.relname = lookup_key.name => ~i.condeferrable
        /\ (/\ Published = ColumnNames
            /\ {2, 3} \subseteq table.attnotnull
            /\ \E i, j \in table.indexes :
                   /\ table.indexes = {i, j}
                   /\ i.indisunique /\ ~i.indisprimary /\ ~i.indpred
                   /\ i.condeferrable /\ i.indkey = <<2>>
                   /\ j.indisunique /\ ~j.indisprimary /\ ~j.indpred
                   /\ ~j.condeferrable /\ j.indkey = <<3>>)
           => (lookup_key.kind = "Key" /\ lookup_key.columns = <<"username">>)

C10_KeyColumnsPublished ==
    Returned =>
        /\ lookup_key.kind = "Key" =>
               \A p \in 1..Len(lookup_key.columns) : lookup_key.columns[p] \in Published
        /\ (\A i \in UniqueIndexes : IndexColumnSet(i) \cap Published = {})
               => lookup_key = FullRow

\* C10 happened: a primary key qualifies, none of its columns is published,
\* and the result is FullRow
C10_Witness ==
    /\ Returned
    /\ \E i \in Candidates : i.indisprimary
    /\ \A i \in UniqueIndexes : IndexColumnSet(i) \cap Published = {}
    /\ lookup_key = FullRow

(***************************************************************************)
(* Claims about catalog discovery, retries and the slot's LSN, checked     *)
(* under Spec.                                                             *)
(***************************************************************************)
SchemasReturned == last.op = "get_table_schemas" /\ last.res.ok

\* the TableSchema get_table_schema builds for a name of the last call
SchemaOf(table_name) ==
    get_table_schema(World, table, table_name, last.arg.publication, NoFaults).res.val

ListedNames == {last.arg.table_names[p] : p \in 1..Len(last.arg.table_names)}

\* C11: the map get_table_schemas returns holds no TableSchema whose lookup
\* key is FullRow; it holds, each under its own table id, exactly the
\* schemas of the listed tables whose lookup key is a Key, so a skipped table
\* does not keep the others out.
C11_OnlySafeTablesReturned ==
    SchemasReturned =>
        /\ \A e \in last.res.val :
               /\ e.table_schema.lookup_key # FullRow
               /\ e.table_id = e.table_schema.table_id
        /\ last.res.val =
               {[table_id |-> SchemaOf(n).table_id, table_schema |-> SchemaOf(n)] :
                    n \in {m \in ListedNames : SchemaOf(m).lookup_key.kind = "Key"}}

\* C11 happened: a table without a safe key was skipped and the table listed
\* after it was returned
C11_Witness ==
    /\ SchemasReturned
    /\ last.arg.table_names = <<PlainName, RelName>>
    /\ SchemaOf(PlainName).lookup_key = FullRow
    /\ \E e \in last.res.val : e.table_id = table.oid /\ e.table_schema.lookup_key.kind = "Key"
    /\ Cardinality(last.res.val) = 1
(***************************************************************************)
(* Claims about get_column_schemas and get_table_id, checked under         *)
(* ColumnSpec.                                                             *)
(***************************************************************************)
ColumnsReturned == last.op = "get_column_schemas" /\ last.res.ok

\* the relation the last get_column_schemas call named
Relation == CHOOSE c \in Catalog(table) : c.oid = last.arg.table_id

\* the attnums of the relation's non-system, non-dropped, non-generated columns
UserColumns == {n \in AttNums : n \notin Relation.attisdropped \cup Relation.attgenerated}

HasColumnList == last.arg.publication = PubName /\ Relation.prattrs # {}

ReturnedNames == [p \in 1..Len(last.res.val) |-> last.res.val[p].name]

\* C12: get_column_schemas returns exactly the columns of the publication's
\* column list for the table when the publication has one, and every
\* non-system, non-dropped, non-generated column when it has none or no
\* publication is given; in both cases in ascending attnum order.
C12_PublishedColumnsInOrder ==
    ColumnsReturned =>
        LET expected == IF HasColumnList THEN Relation.prattrs ELSE UserColumns
        IN  /\ {ReturnedNames[p] : p \in 1..Len(ReturnedNames)} =
                   {Columns[n] : n \in expected}
            /\ Len(ReturnedNames) = Cardinality(expected)
            /\ \A p, q \in 1..Len(ReturnedNames) :
                   p < q => \E n, m \in expected :
                                /\ n < m
                                /\ ReturnedNames[p] = Columns[n]
                                /\ ReturnedNames[q] = Columns[m]

\* C12 happened: a column list of two columns was returned for a relation
\* with a dropped column outside the list
C12_Witness ==
    /\ ColumnsReturned /\ HasColumnList
    /\ Relation.prattrs = {2, 4} /\ Relation.attisdropped = {3}
    /\ ReturnedNames = <<"email", "data">>

TableIdReturned == last.op = "get_table_id" /\ (\A p \in 1..Len(last.sent) : last.sent[p].ok)

\* the pg_class rows with the schema and name of the last get_table_id call
Named == {c \in Catalog(table) : c.name = last.arg}

\* C13: get_table_id returns None when no relation has the name, the
\* relation's OID when its replica identity is 'd' or 'f', and
\* ReplicaIdentityNotSupported for every other replica identity, so no OID
\* is ever returned for such a relation.
C13_TableIdByReplicaIdentity ==
    TableIdReturned =>
        /\ Named = {} => last.res = Ok(NoneOpt)
        /\ \A c \in Named :
               IF c.relreplident \in {"d", "f"} THEN last.res = Ok(Some(c.oid))
               ELSE last.res = Err("ReplicaIdentityNotSupported")

\* C13 happened: a relation with replica identity 'i' was refused
C13_Witness ==
    /\ TableIdReturned
    /\ \E c \in Named : c.relreplident = "i"
    /\ last.res = Err("ReplicaIdentityNotSupported")

\* the three queries of get_table_schema, in order
SchemaQueries == <<"get_table_id", "get_column_schemas", "get_lookup_key">>

\* C15: no operation retries.  A command that failed is the last one the
\* operation sent and the operation returns that failure; get_or_create_slot
\* and the single-command operations send no command twice;
\* get_table_schemas sends at most the three queries of each listed table,
\* in order, and when a table fails it returns the error alone, no map.
C15_NoRetryFirstFailureReturned ==
    /\ \A p \in 1..Len(last.sent) :
           ~last.sent[p].ok => p = Len(last.sent) /\ last.res = Err("TokioPostgresError")
    /\ last.op # "get_table_schemas" =>
           \A p, q \in 1..Len(last.sent) : p # q => last.sent[p].cmd # last.sent[q].cmd
    /\ last.op = "get_table_schemas" =>
           /\ Len(last.sent) <= 3 * Len(last.arg.table_names)
           /\ \A p \in 1..Len(last.sent) :
                  last.sent[p].cmd = QUERY /\ last.sent[p].arg = SchemaQueries[((p - 1) % 3) + 1]
           /\ ~last.res.ok =>
                  last.res \in {Err("TokioPostgresError"), Err("MissingTable")}
    /\ last.op = "get_or_create_slot" =>
           \A p \in 1..Len(last.sent) :
               /\ last.sent[p].cmd = BEGIN =>
                      \A q \in 1..(p - 1) : last.sent[q].ok
               /\ last.sent[p].cmd = CREATE_SLOT =>
                      \A q \in 1..(p - 1) : last.sent[q].ok

\* C15 happened: get_table_schemas failed in its second table, after the
\* first table's three queries had succeeded
C15_Witness ==
    /\ last.op = "get_table_schemas" /\ ~last.res.ok
    /\ Len(last.sent) = 5 /\ ~last.sent[5].ok

\* C16: for a fixed slot, the confirmed_flush_lsn values that successive
\* successful get_or_create_slot calls return (the consistent point on
\* creation, the slot's confirmed_flush_lsn afterwards) never decrease.
C16_ObservedLsnNonDecreasing ==
    \A s \in SlotNames :
        (observed[s].previous.some /\ observed[s].latest.some) =>
            observed[s].previous.v <= observed[s].latest.v

\* C16 happened: a slot created at one LSN was found later at a higher one
C16_Witness ==
    \E s \in SlotNames :
        /\ observed[s].previous.some /\ observed[s].latest.some
        /\ observed[s].previous.v < observed[s].latest.v
        /\ SlotExisted /\ last.arg = s /\ last.res.ok

\* the rows of the reply to the one command get_slot or create_slot sent
ReplyRows == last.sent[1].rows

\* the LSN a well-formed "hi/lo" text stands for
LsnOf(text) == CHOOSE lsn \in Lsns : LsnText(lsn) = text

WellFormed(text) == \E lsn \in Lsns : LsnText(lsn) = text

\* C17: when its command succeeds, create_slot returns the consistent_point
\* of the reply's row as confirmed_flush_lsn, FailedToCreateSlot when the
\* reply has no row and InvalidPgLsn when the text does not parse; get_slot
\* returns None when no slot of the name exists, the row's
\* confirmed_flush_lsn when it parses and InvalidPgLsn when it does not.
C17_SlotInfoFromReply ==
    /\ (last.op = "create_slot" /\ last.sent[1].ok) =>
           IF ReplyRows = <<>> THEN last.res = Err("FailedToCreateSlot")
           ELSE IF WellFormed(ReplyRows[1].consistent_point)
               THEN last.res = Ok([confirmed_flush_lsn |-> LsnOf(ReplyRows[1].consistent_point)])
           ELSE last.res = Err("InvalidPgLsn")
    /\ (last.op = "get_slot" /\ last.sent[1].ok) =>
           /\ ~last.pre_slots[last.arg].some => last.res = Ok(NoneOpt)
           /\ ReplyRows = <<>> => last.res = Ok(NoneOpt)
           /\ ReplyRows # <<>> =>
                  IF WellFormed(ReplyRows[1].confirmed_flush_lsn)
                      THEN last.res = Ok(Some([confirmed_flush_lsn |->
                                                   last.pre_slots[last.arg].v]))
                  ELSE last.res = Err("InvalidPgLsn")

\* C17 happened: CREATE_REPLICATION_SLOT succeeded with a consistent point
\* that does not parse and create_slot returned InvalidPgLsn
C17_Witness ==
    /\ last.op = "create_slot" /\ last.sent[1].ok
    /\ ReplyRows # <<>> /\ ~WellFormed(ReplyRows[1].consistent_point)
    /\ last.res = Err("InvalidPgLsn")

\* the positions of the commands the last operation sent that failed
FailedCommands == {p \in 1..Len(last.sent) : ~last.sent[p].ok}

\* C19: a failed command leaves in_txn at the value it had before that
\* command: a failed BEGIN does not set it, a failed COMMIT or ROLLBACK
\* leaves it true, and get_or_create_slot failing at CREATE_REPLICATION_SLOT
\* after its BEGIN succeeded returns the error with in_txn true.
C19_FailedCommandKeepsFlag ==
    \A p \in FailedCommands :
        /\ in_txn = last.sent[p].in_txn
        /\ last.sent[p].cmd \in {COMMIT, ROLLBACK} => in_txn
        /\ (/\ last.op = "get_or_create_slot"
            /\ last.sent[p].cmd = CREATE_SLOT
            /\ p > 1
            /\ last.sent[p - 1].cmd = BEGIN
            /\ last.sent[p - 1].ok)
               => in_txn /\ ~last.res.ok /\ last.res = Err("TokioPostgresError")

\* C19 happened: get_or_create_slot, called outside a transaction, began one
\* and its CREATE_REPLICATION_SLOT failed
C19_Witness ==
    /\ last.op = "get_or_create_slot"
    /\ ~last.pre_in_txn
    /\ Commands(last.sent) = <<SELECT_SLOT, BEGIN, CREATE_SLOT>>
    /\ last.sent[2].ok
    /\ ~last.sent[3].ok
    /\ in_txn
    /\ ~last.res.ok

\* the operations that read the catalog or open a stream
ReadOperations ==
    {"get_table_id", "get_column_schemas", "get_lookup_key", "get_table_schemas",
     "get_publication_table_names", "publication_exists", "get_table_copy_stream",
     "get_logical_replication_stream"}

\* C20: get_table_id, get_column_schemas, get_lookup_key, get_table_schemas,
\* get_publication_table_names, publication_exists, get_table_copy_stream and
\* get_logical_replication_stream leave in_txn as it was and send no BEGIN,
\* COMMIT or ROLLBACK, whether they succeed or fail.
C20_ReadOperationsKeepFlag ==
    last.op \in ReadOperations =>
        /\ in_txn = last.pre_in_txn
        /\ \A p \in 1..Len(last.sent) : last.sent[p].cmd \notin {BEGIN, COMMIT, ROLLBACK}

\* C20 happened: get_table_copy_stream started a copy inside a transaction
\* and the transaction flag is still set
C20_Witness ==
    /\ last.op = "get_table_copy_stream"
    /\ last.pre_in_txn
    /\ last.res.ok
    /\ Commands(last.sent) = <<COPY>>
    /\ in_txn

\* client c's CREATE_REPLICATION_SLOT succeeded
Created(c) ==
    \E p \in 1..Len(peers[c].sent) :
        peers[c].sent[p].cmd = CREATE_SLOT /\ peers[c].sent[p].ok

HasReturned(c) == peers[c].pc = "returned"

\* the LSN of the row the server sent client c for its command cmd
ReplyLsn(c, cmd, column) ==
    LET p == CHOOSE q \in 1..Len(peers[c].sent) : peers[c].sent[q].cmd = cmd
    IN  LsnOf(peers[c].sent[p].rows[1][column])

\* C18: of two clients in get_or_create_slot for the same absent slot, under
\* every interleaving at most one creates the slot; a client that returns
\* success returns either the consistent point of its own creation or the
\* confirmed_flush_lsn of the slot it found; a client that fails returns the
\* server's error; when both have returned exactly one has created the slot.
C18_SlotCreatedAtMostOnce ==
    /\ Cardinality({c \in Clients : Created(c)}) <= 1
    /\ \A c \in Clients :
           HasReturned(c) =>
               IF peers[c].res.ok
                   THEN IF Created(c)
                            THEN peers[c].res =
                                     Ok([confirmed_flush_lsn |->
                                             ReplyLsn(c, CREATE_SLOT, "consistent_point")])
                        ELSE /\ Commands(peers[c].sent) = <<SELECT_SLOT>>
                             /\ peers[c].res =
                                    Ok([confirmed_flush_lsn |->
                                            ReplyLsn(c, SELECT_SLOT, "confirmed_flush_lsn")])
               ELSE ~Created(c) /\ peers[c].res = Err("TokioPostgresError")
    /\ (\A c \in Clients : HasReturned(c)) =>
           Cardinality({c \in Clients : Created(c)}) = 1

\* C18 happened: both clients looked the slot up before either created it,
\* one created it and the other's CREATE_REPLICATION_SLOT was refused
C18_Witness ==
    \E c, d \in Clients :
        /\ HasReturned(c) /\ HasReturned(d)
        /\ Created(c) /\ peers[c].res.ok
        /\ ~peers[d].res.ok
        /\ \E p \in 1..Len(peers[d].sent) :
               peers[d].sent[p].cmd = CREATE_SLOT /\ ~peers[d].sent[p].ok

\* the attnotnull texts of the rows the last get_column_schemas call read
AttNotNullRead ==
    LET rows == ColumnInfoRows(table, last.arg.table_id, last.arg.publication)
    IN  [p \in 1..Len(rows) |-> rows[p].attnotnull]

====
